---- MODULE Spec2Model ----
(***************************************************************************)
(* importlib_resources.open(package_name, path): validation of the        *)
(* resource path, resolution of the anchor package through the host's     *)
(* import system, and the byte fetch through the package's loader.         *)
(*                                                                         *)
(* Strings are sequences of one-character strings, so that isabs,          *)
(* normpath, startswith, dirname and join are computed character by        *)
(* character, as posixpath computes them.                                  *)
(***************************************************************************)
EXTENDS Integers, Sequences, FiniteSets, TLC

VARIABLES
    sys_modules,   \* sys.modules: the names of the modules the host has resolved
    pc,            \* "idle" before a call of open, "returned" after it
    call,          \* the arguments of the last call: the package reference and the path
    result,        \* what the last call gave: the exception kind or "ok", and the stream
    importLog,     \* the modules importlib.import_module executed during the last call
    loaderCalls,   \* the get_data requests of the last call: location and what was raised
    reader_path    \* Reader._path of the hand-made packages, set by open_resource

vars == <<sys_modules, pc, call, result, importLog, loaderCalls, reader_path>>

(***************************************************************************)
(* Bounds                                                                  *)
(***************************************************************************)
\* longest caller-supplied path, in characters
MaxLen == 6

(***************************************************************************)
(* Strings                                                                 *)
(***************************************************************************)
SEP == "/"
DOT == "."
Alphabet == {SEP, DOT, "a"}

RECURSIVE StringsOfLen(_)
StringsOfLen(n) ==
    IF n = 0 THEN {<<>>}
    ELSE {Append(s, c) : s \in StringsOfLen(n - 1), c \in Alphabet}

\* the path arguments a caller may pass
Paths == UNION {StringsOfLen(n) : n \in 0..MaxLen}

\* str.startswith
startswith(s, prefix) ==
    /\ Len(s) >= Len(prefix)
    /\ SubSeq(s, 1, Len(prefix)) = prefix

\* str.find(SEP), 1-based, 0 when absent
find(s) ==
    IF \E i \in 1..Len(s) : s[i] = SEP
    THEN CHOOSE i \in 1..Len(s) : s[i] = SEP /\ \A j \in 1..(i - 1) : s[j] # SEP
    ELSE 0

\* str.rfind(SEP) + 1
rfind(s) ==
    IF \E i \in 1..Len(s) : s[i] = SEP
    THEN CHOOSE i \in 1..Len(s) : s[i] = SEP /\ \A j \in (i + 1)..Len(s) : s[j] # SEP
    ELSE 0

\* str.split(SEP)
RECURSIVE split(_)
split(s) ==
    LET i == find(s)
    IN  IF i = 0 THEN <<s>>
        ELSE <<SubSeq(s, 1, i - 1)>> \o split(SubSeq(s, i + 1, Len(s)))

\* SEP.join(comps)
RECURSIVE joinComps(_)
joinComps(comps) ==
    IF comps = <<>> THEN <<>>
    ELSE IF Len(comps) = 1 THEN comps[1]
    ELSE comps[1] \o <<SEP>> \o joinComps(Tail(comps))

\* str.rstrip(SEP)
RECURSIVE rstrip(_)
rstrip(s) ==
    IF s # <<>> /\ s[Len(s)] = SEP THEN rstrip(SubSeq(s, 1, Len(s) - 1)) ELSE s

(***************************************************************************)
(* os.path (posixpath), as called by the package                           *)
(***************************************************************************)
\* os.path.isabs
isabs(path) == startswith(path, <<SEP>>)

\* the component loop of os.path.normpath
RECURSIVE normComps(_, _, _)
normComps(comps, new_comps, initial_slashes) ==
    IF comps = <<>> THEN new_comps
    ELSE LET comp == Head(comps)
             rest == Tail(comps)
         IN  IF comp = <<>> \/ comp = <<DOT>>
             THEN normComps(rest, new_comps, initial_slashes)
             ELSE IF \/ comp # <<DOT, DOT>>
                     \/ (initial_slashes = 0 /\ new_comps = <<>>)
                     \/ (new_comps # <<>> /\ new_comps[Len(new_comps)] = <<DOT, DOT>>)
             THEN normComps(rest, Append(new_comps, comp), initial_slashes)
             ELSE IF new_comps # <<>>
             THEN normComps(rest, SubSeq(new_comps, 1, Len(new_comps) - 1), initial_slashes)
             ELSE normComps(rest, new_comps, initial_slashes)

\* os.path.normpath
normpath(path) ==
    IF path = <<>> THEN <<DOT>>
    ELSE LET initial_slashes ==
                 IF ~startswith(path, <<SEP>>) THEN 0
                 ELSE IF startswith(path, <<SEP, SEP>>) /\ ~startswith(path, <<SEP, SEP, SEP>>)
                 THEN 2 ELSE 1
             joined == joinComps(normComps(split(path), <<>>, initial_slashes))
             out == [i \in 1..initial_slashes |-> SEP] \o joined
         IN  IF out = <<>> THEN <<DOT>> ELSE out

\* os.path.join(a, b)
join(a, b) ==
    IF startswith(b, <<SEP>>) THEN b
    ELSE IF a = <<>> \/ a[Len(a)] = SEP THEN a \o b
    ELSE a \o <<SEP>> \o b

\* os.getcwd() of the running process
cwd == <<SEP>>

\* os.path.abspath
abspath(path) == normpath(IF isabs(path) THEN path ELSE join(cwd, path))

\* os.path.dirname
dirname(p) ==
    LET i == rfind(p)
        head == SubSeq(p, 1, i)
    IN  IF head # <<>> /\ head # [k \in 1..Len(head) |-> SEP] THEN rstrip(head) ELSE head

(***************************************************************************)
(* The host: modules the import system can find, and the file system       *)
(***************************************************************************)
\* tests/data/__init__.py: a package whose directory holds the resources
DataModule == [name |-> "data", origin |-> <<SEP, "a", SEP, "i">>,
               is_package |-> TRUE, loader |-> "file", file |-> <<>>, file_raises |-> ""]

\* tests/util.py: an ordinary module, living next to the resources
UtilModule == [name |-> "util", origin |-> <<SEP, "a", SEP, "u">>,
               is_package |-> FALSE, loader |-> "file", file |-> <<>>, file_raises |-> ""]

\* create_package(file, path, is_package): a module object built by hand, whose
\* loader is a Reader (open_resource and resource_path only); it is never put in
\* sys.modules and no finder knows its name
create_package(file, file_raises, is_package) ==
    [name |-> "testingpackage", origin |-> <<"x">>,
     is_package |-> is_package, loader |-> "reader", file |-> file, file_raises |-> file_raises]

Hello == <<72, 105>>

ModuleIds == {"data", "util", "readerOk", "readerUseless"}

ModuleTable(id) ==
    CASE id = "data" -> DataModule
      [] id = "util" -> UtilModule
      [] id = "readerOk" -> create_package(Hello, "", TRUE)
      [] id = "readerUseless" -> create_package(<<>>, "FileNotFoundError", TRUE)

\* names the import system's finders can locate
Importable == {"data", "util"}

Names == Importable \cup {"testingpackage"}

\* what a caller may pass as the package argument: a dotted name or a module object
Refs == [form : {"name"}, id : Names] \cup [form : {"handle"}, id : ModuleIds]

\* regular files: two resources of the package and one file outside its directory
Files == (<<SEP, "a", SEP, "a">> :> <<1, 2, 3>>)
      @@ (<<SEP, "a", SEP, DOT, "a">> :> <<4, 5>>)
      @@ (<<SEP, DOT, "a">> :> <<6>>)

Dirs == {<<SEP>>, <<SEP, "a">>}

Raise(kind) == [raised |-> kind, value |-> <<>>]
Return(v) == [raised |-> "", value |-> v]

\* open(location, 'rb').read() of the operating system
os_read(location) ==
    LET real == normpath(location)
    IN  IF real \in DOMAIN Files THEN Return(Files[real])
        ELSE IF real \in Dirs THEN Raise("IsADirectoryError")
        ELSE IF \E f \in DOMAIN Files : startswith(real, f \o <<SEP>>)
        THEN Raise("NotADirectoryError")
        ELSE Raise("FileNotFoundError")

(***************************************************************************)
(* importlib_resources/__init__.py                                         *)
(***************************************************************************)
\* import_module that executes the module and forgets to cache it
import_module_noCache(package_name, modules) ==
    IF package_name.form # "name"
    THEN [raised |-> "AttributeError", module |-> "", modules |-> modules, executed |-> <<>>]
    ELSE IF package_name.id \in Importable
    THEN [raised |-> "", module |-> package_name.id,
          modules |-> modules, executed |-> <<package_name.id>>]
    ELSE [raised |-> "ModuleNotFoundError", module |-> "", modules |-> modules, executed |-> <<>>]

\* importlib.import_module(package_name): name.startswith('.') needs a str; a
\* cached module is returned as it is; a found one is executed and cached
import_module(package_name, modules) ==
    IF package_name.form # "name"
    THEN [raised |-> "AttributeError", module |-> "", modules |-> modules, executed |-> <<>>]
    ELSE IF package_name.id \in modules
    THEN [raised |-> "", module |-> package_name.id, modules |-> modules, executed |-> <<>>]
    ELSE IF package_name.id \in Importable
    THEN [raised |-> "", module |-> package_name.id,
          modules |-> modules \cup {package_name.id}, executed |-> <<package_name.id>>]
    ELSE [raised |-> "ModuleNotFoundError", module |-> "", modules |-> modules, executed |-> <<>>]

_get_package(package_name, modules) ==
    LET module == import_module(package_name, modules)
    IN  IF module.raised # "" THEN module
        ELSE IF ~ModuleTable(module.module).is_package
        THEN [module EXCEPT !.raised = "TypeError"]
        ELSE module

\* _normalize_path without the isabs test
_normalize_path_noAbsCheck(path) ==
    LET normalized_path == normpath(path)
    IN  IF startswith(normalized_path, <<DOT, DOT>>) THEN Raise("ValueError")
        ELSE Return(normalized_path)

\* _normalize_path testing the path as given, not its normalized form
_normalize_path_rawPrefix(path) ==
    IF isabs(path) THEN Raise("ValueError")
    ELSE IF startswith(path, <<DOT, DOT>>) THEN Raise("ValueError")
    ELSE Return(normpath(path))

\* _normalize_path without the traversal test
_normalize_path_noTraversalCheck(path) ==
    IF isabs(path) THEN Raise("ValueError")
    ELSE Return(normpath(path))

_normalize_path(path) ==
    IF isabs(path) THEN Raise("ValueError")
    ELSE LET normalized_path == normpath(path)
         IN  IF startswith(normalized_path, <<DOT, DOT>>) THEN Raise("ValueError")
             ELSE Return(normalized_path)

\* package.__spec__.loader.get_data(full_path): a Reader has no get_data
get_data(module, full_path) ==
    IF ModuleTable(module).loader = "file" THEN os_read(full_path)
    ELSE Raise("AttributeError")

\* io.BytesIO(data)
BytesIO(data) == [buf |-> data, pos |-> 0]

\* BinaryIO.read(): everything from the position on
read(stream) == SubSeq(stream.buf, stream.pos + 1, Len(stream.buf))

NoStream == [buf |-> <<>>, pos |-> 0]

\* an outcome of one call: what was raised or returned, the module cache after
\* it, the modules executed and the loader requests made on the way
Failed(kind, modules, executed, loads) ==
    [kind |-> kind, stream |-> FALSE, io |-> NoStream,
     modules |-> modules, executed |-> executed, loads |-> loads]

Returned(io, modules, executed, loads) ==
    [kind |-> "ok", stream |-> TRUE, io |-> io,
     modules |-> modules, executed |-> executed, loads |-> loads]

\* open that resolves the package before it validates the path
open_resolveFirst(package_name, path, modules) ==
    LET package == _get_package(package_name, modules)
    IN  IF package.raised # ""
        THEN Failed(package.raised, package.modules, package.executed, <<>>)
        ELSE
    LET normalized_path == _normalize_path(path)
    IN  IF normalized_path.raised # ""
        THEN Failed(normalized_path.raised, package.modules, package.executed, <<>>)
        ELSE
    LET package_path == dirname(abspath(ModuleTable(package.module).origin))
        full_path == join(package_path, normalized_path.value)
        data == get_data(package.module, full_path)
        loads == <<[location |-> full_path, raised |-> data.raised]>>
    IN  IF data.raised # ""
        THEN Failed(data.raised, package.modules, package.executed, loads)
        ELSE Returned(BytesIO(data.value), package.modules, package.executed, loads)

\* open that answers a missing resource with an empty stream
open_swallowNotFound(package_name, path, modules) ==
    LET normalized_path == _normalize_path(path)
    IN  IF normalized_path.raised # ""
        THEN Failed(normalized_path.raised, modules, <<>>, <<>>)
        ELSE
    LET package == _get_package(package_name, modules)
    IN  IF package.raised # ""
        THEN Failed(package.raised, package.modules, package.executed, <<>>)
        ELSE
    LET package_path == dirname(abspath(ModuleTable(package.module).origin))
        full_path == join(package_path, normalized_path.value)
        data == get_data(package.module, full_path)
        loads == <<[location |-> full_path, raised |-> data.raised]>>
    IN  IF data.raised = "FileNotFoundError"
        THEN Returned(BytesIO(<<>>), package.modules, package.executed, loads)
        ELSE IF data.raised # ""
        THEN Failed(data.raised, package.modules, package.executed, loads)
        ELSE Returned(BytesIO(data.value), package.modules, package.executed, loads)

open(package_name, path, modules) ==
    LET normalized_path == _normalize_path(path)
    IN  IF normalized_path.raised # ""
        THEN Failed(normalized_path.raised, modules, <<>>, <<>>)
        ELSE
    LET package == _get_package(package_name, modules)
    IN  IF package.raised # ""
        THEN Failed(package.raised, package.modules, package.executed, <<>>)
        ELSE
    LET package_path == dirname(abspath(ModuleTable(package.module).origin))
        full_path == join(package_path, normalized_path.value)
        data == get_data(package.module, full_path)
        loads == <<[location |-> full_path, raised |-> data.raised]>>
    IN  IF data.raised # ""
        THEN Failed(data.raised, package.modules, package.executed, loads)
        ELSE Returned(BytesIO(data.value), package.modules, package.executed, loads)

(***************************************************************************)
(* The state machine: a caller making one call after another               *)
(***************************************************************************)
NoCall == [ref |-> [form |-> "none", id |-> ""], path |-> <<>>]
NoResult == [kind |-> "none", stream |-> FALSE, io |-> NoStream]
Unset == <<"unset">>

\* the test modules import data and util before any test runs
Init ==
    /\ sys_modules = Importable
    /\ pc = "idle"
    /\ call = NoCall
    /\ result = NoResult
    /\ importLog = <<>>
    /\ loaderCalls = <<>>
    /\ reader_path = [m \in {"readerOk", "readerUseless"} |-> Unset]

\* one call of open(package_name, path), from entry to return or raise, with the
\* arguments the caller chose
Open ==
    /\ pc = "idle"
    /\ \E package_name \in Refs, path \in Paths :
           LET o == open(package_name, path, sys_modules)
           IN  /\ sys_modules' = o.modules
               /\ result' = [kind |-> o.kind, stream |-> o.stream, io |-> o.io]
               /\ importLog' = o.executed
               /\ loaderCalls' = o.loads
               /\ call' = [ref |-> package_name, path |-> path]
    /\ pc' = "returned"
    /\ UNCHANGED reader_path

\* the caller drops the stream or the exception and goes on to its next call
Release ==
    /\ pc = "returned"
    /\ pc' = "idle"
    /\ call' = NoCall
    /\ result' = NoResult
    /\ importLog' = <<>>
    /\ loaderCalls' = <<>>
    /\ UNCHANGED <<sys_modules, reader_path>>

\* del sys.modules[name]
Evict(name) ==
    /\ pc = "idle"
    /\ name \in sys_modules
    /\ sys_modules' = sys_modules \ {name}
    /\ UNCHANGED <<pc, call, result, importLog, loaderCalls, reader_path>>

Next ==
    \/ Open
    \/ Release
    \/ \E name \in Importable : Evict(name)

Spec == Init /\ [][Next]_vars

(***************************************************************************)
(* Vocabulary of the properties                                            *)
(***************************************************************************)
\* the directory of the data package, where its resources live
AnchorDir == <<SEP, "a">>

\* the reference denotes module m: by its importable name, or as the object itself
Denotes(ref, m) ==
    \/ ref.form = "name" /\ ref.id = m /\ m \in Importable
    \/ ref.form = "handle" /\ ref.id = m

ByName(ref, n) == ref.form = "name" /\ ref.id = n

\* the same module, referred to the other way
OtherForm(ref) == [form |-> IF ref.form = "name" THEN "handle" ELSE "name", id |-> ref.id]

IsAbsolute(p) == p # <<>> /\ p[1] = SEP

\* the normalized form begins with a parent-traversal segment
LeadsWithParent(n) == n = <<DOT, DOT>> \/ startswith(n, <<DOT, DOT, SEP>>)

\* a path the validation accepts: relative, and its normalized form does not begin ".."
ValidPath(p) == ~IsAbsolute(p) /\ ~startswith(normpath(p), <<DOT, DOT>>)

\* the names of the files the data package's directory holds
ResourceNames == {p \in Paths : ~IsAbsolute(p) /\ (AnchorDir \o <<SEP>> \o p) \in DOMAIN Files}

ResourceBytes(p) == Files[AnchorDir \o <<SEP>> \o p]

\* where a relative path leads from the data package's directory
Target(p) == normpath(AnchorDir \o <<SEP>> \o p)

\* the location lies in the directory dir or is dir itself
Inside(location, dir) ==
    LET n == normpath(location)
    IN  n = dir \/ startswith(n, dir \o <<SEP>>)

(***************************************************************************)
(* Properties                                                              *)
(***************************************************************************)
\* C1: for the package whose directory holds a resource named p with bytes B,
\* however the package is referred to, open(package, p) returns a stream at
\* position 0 whose full read is exactly B.
C1_OpenReturnsResourceBytes ==
    (pc = "returned" /\ Denotes(call.ref, "data") /\ call.path \in ResourceNames)
        => /\ result.kind = "ok"
           /\ result.stream
           /\ result.io.pos = 0
           /\ read(result.io) = ResourceBytes(call.path)

\* C2: for a package and a relative path, the call with the package's name and
\* the call with the package object have the same outcome: the same bytes on
\* success, the same error kind on failure.
C2_NameAndHandleAgree ==
    (pc = "returned" /\ Denotes(call.ref, "data") /\ ~IsAbsolute(call.path))
        => LET other == open(OtherForm(call.ref), call.path, sys_modules)
           IN  /\ other.kind = result.kind
               /\ other.stream = result.stream
               /\ other.io = result.io

\* C3: every absolute path is refused with ValueError, whatever is or is not at
\* that path, and the loader is not asked for anything during the call.
C3_AbsolutePathRejected ==
    (pc = "returned" /\ IsAbsolute(call.path))
        => /\ result.kind = "ValueError"
           /\ ~result.stream
           /\ loaderCalls = <<>>

\* C3 witness: an absolute path naming an existing resource was refused.
C3_Witness ==
    /\ pc = "returned"
    /\ call.path = <<SEP, "a", SEP, "a">>
    /\ call.path \in DOMAIN Files
    /\ ByName(call.ref, "data")
    /\ result.kind = "ValueError"

\* C4: every relative path whose normalized form begins with a parent-traversal
\* segment is refused with ValueError, also when it names an existing file.
C4_TraversalRejected ==
    (pc = "returned" /\ ~IsAbsolute(call.path) /\ LeadsWithParent(normpath(call.path)))
        => /\ result.kind = "ValueError"
           /\ ~result.stream

\* C4 witness: "../a/a" leads out of the package's directory and back to its own
\* resource, and was refused.
C4_Witness ==
    /\ pc = "returned"
    /\ call.path = <<DOT, DOT, SEP, "a", SEP, "a">>
    /\ Target(call.path) \in DOMAIN Files
    /\ Denotes(call.ref, "data")
    /\ result.kind = "ValueError"

\* C5: a reference to an ordinary module, given by name or as the module object,
\* is refused with TypeError and no bytes are returned, also when a file of the
\* requested name lies next to the module.
C5_NonPackageRejected ==
    (pc = "returned" /\ Denotes(call.ref, "util") /\ ValidPath(call.path))
        => /\ result.kind = "TypeError"
           /\ ~result.stream

C7_ImportOnceAsSideEffect ==
    [][(pc = "idle" /\ pc' = "returned" /\ ByName(call'.ref, "data") /\ ValidPath(call'.path))
        => /\ "data" \in sys_modules'
           /\ ("data" \notin sys_modules => importLog' = <<"data">>)
           /\ ("data" \in sys_modules => importLog' = <<>> /\ sys_modules' = sys_modules)
           /\ (Target(call'.path) \in DOMAIN Files
                  => /\ result'.kind = "ok"
                     /\ read(result'.io) = Files[Target(call'.path)])]_vars

\* C7 witness: the package had been removed from the cache; the call imported
\* it and returned the resource.
C7_Witness ==
    /\ pc = "returned"
    /\ ByName(call.ref, "data")
    /\ call.path = <<"a">>
    /\ importLog = <<"data">>
    /\ "data" \in sys_modules
    /\ result.kind = "ok"

\* C8: when the package object's loader is a resource reader, open(package, p)
\* succeeds and the reader has recorded the validated relative path p.
C8_ReaderReceivesRelativePath ==
    (/\ pc = "returned"
     /\ call.ref = [form |-> "handle", id |-> "readerOk"]
     /\ ValidPath(call.path)
     /\ call.path = normpath(call.path))
        => /\ result.kind = "ok"
           /\ result.stream
           /\ reader_path["readerOk"] = call.path

\* C9 as stated: resolution precedes validation; with an invalid path a
\* non-package reference fails with TypeError, and a named package is resolved
\* by the time the call fails with ValueError.
C9_ResolutionBeforeValidation ==
    (pc = "returned" /\ ~ValidPath(call.path))
        => /\ (Denotes(call.ref, "util") => result.kind = "TypeError")
           /\ (ByName(call.ref, "data")
                  => "data" \in sys_modules /\ result.kind = "ValueError")

\* C9 amended: validation precedes resolution, which precedes the fetch; with an
\* invalid path every call fails with ValueError, whatever the reference, and
\* resolves nothing, and a call that fails in resolution asks the loader nothing.
C9_ValidationBeforeResolution ==
    [][(pc = "idle" /\ pc' = "returned")
        => /\ ~ValidPath(call'.path)
                  => /\ result'.kind = "ValueError"
                     /\ sys_modules' = sys_modules
                     /\ importLog' = <<>>
                     /\ loaderCalls' = <<>>
           /\ result'.kind \in {"TypeError", "ModuleNotFoundError"}
                  => loaderCalls' = <<>>]_vars

\* C9 witness: the package was not resolved, the path was invalid; the call
\* failed with ValueError and the package is still not resolved.
C9_Witness ==
    /\ pc = "returned"
    /\ ByName(call.ref, "data")
    /\ ~ValidPath(call.path)
    /\ "data" \notin sys_modules
    /\ result.kind = "ValueError"

\* C10: every location handed to the loader is the package's directory joined
\* with the normalized path, and lies inside that directory.
C10_LoaderStaysInsideAnchor ==
    \A i \in DOMAIN loaderCalls :
        /\ Denotes(call.ref, "data")
        /\ loaderCalls[i].location = join(AnchorDir, normpath(call.path))
        /\ Inside(loaderCalls[i].location, AnchorDir)
        /\ \A comp \in 1..Len(split(loaderCalls[i].location)) :
               split(loaderCalls[i].location)[comp] # <<DOT, DOT>>

\* C10 witness: a path with a parent segment inside it reached the loader, as a
\* location in the package's directory.
C10_Witness ==
    /\ pc = "returned"
    /\ call.path = <<"a", SEP, DOT, DOT, SEP, "a">>
    /\ Len(loaderCalls) = 1
    /\ loaderCalls[1].location = <<SEP, "a", SEP, "a">>
    /\ result.kind = "ok"

====
